---- MODULE Spec2Model ----
(***************************************************************************)
(* fcompile: incremental, dependency-ordered compilation of Fortran        *)
(* sources (src/fcompile.py).  The model covers get_tree (with             *)
(* get_priority and get_ancestors), build, scheduler and worker.           *)
(*                                                                         *)
(* Hashes are abstract tokens.  "none" stands for an absent key of a hash  *)
(* dict (the None of dict.get).  "cur" is the hash get_hash computes for a *)
(* source in this run, "old" any other hash a cache may hold for it; "h1"  *)
(* and "h2" are the two contents a .mod file may have.                     *)
(***************************************************************************)
EXTENDS Integers, Sequences, FiniteSets, TLC

VARIABLES
    manifest,      \* the task manifest with what parse_modules/get_hash read from each source
    dry,           \* build(dry=...)
    njobs,         \* build(njobs=...)
    cache,         \* contents of _fcompile_cache.json: the persisted 'hashes' map
    cache_doc,     \* what _fcompile_cache.json is: "absent" (no such file), "hashes"
                   \* (the document {"hashes": cache}), or a document of another kind
                   \* (see CacheDocs)
    cache_writes,  \* number of times this process wrote the cache file
    modfiles,      \* <module>.mod files in the working directory: module -> content hash
    phase,         \* the build process: "init" (build not yet called), "start" (workers
                   \* created, scheduler not yet run), "running" (scheduler awaiting a
                   \* result), "stopping" (scheduler ended, loop stopping), "returned",
                   \* "raised"
    error,         \* the exception build() ended with, or NoError
    tree,          \* TaskTree returned by get_tree
    hashes,        \* the live hashes dict of build/scheduler
    changed_files,
    waiting, scheduled, blocking,   \* scheduler locals
    n_lines, n_all_lines,           \* scheduler locals
    dispatched,    \* sources put on the task queue by the latest dispatch pass
    clocks,        \* global clocks: sources in the order their results were processed
    task_queue,    \* PriorityQueue contents: set of <<-priority, source>>
    result_queue,  \* Queue contents: sequence of [src, retcode]
    workers,       \* the njobs worker tasks: "none" (not created), "live", "cancelled"
    spawning,      \* tasks of the workers inside create_subprocess_exec (line 304)
    awaited,       \* tasks of the workers at line 307 (subprocess running)
    n_running,     \* global n_running
    spawned,       \* history: sources for which this process started a subprocess
    propagated,    \* history: modules whose .mod hash the scheduler found changed (line 290)
    exits,         \* history: how the earlier build() processes ended
    runs           \* number of build() invocations so far

vars == <<manifest, dry, njobs, cache, cache_doc, cache_writes, modfiles, phase, error, tree,
          hashes, changed_files, waiting, scheduled, blocking, n_lines, n_all_lines,
          dispatched, clocks, task_queue, result_queue, workers, spawning, awaited, n_running,
          spawned, propagated, exits, runs>>

----------------------------------------------------------------------------
(* Bounds and universes *)

MaxJobs == 2      \* njobs ranges over 1..MaxJobs
MaxRuns == 2      \* build() is invoked at most MaxRuns times on the same manifest
LineLen == 1      \* a source has 0 or LineLen lines
MaxDefs == 2      \* a source has at most MaxDefs module statements
MaxIncs == 2      \* at most MaxIncs include directories of a task hold the same .mod file

TaskOrder == <<"a", "b", "c">>     \* the manifest's keys, in dict order
Sources   == {TaskOrder[i] : i \in 1..Len(TaskOrder)}
Modules   == {"m", "n"}
Intrinsics == {"mpi", "iso_c_binding"}     \* the module names get_tree treats specially
AllModules == Modules \cup Intrinsics

NoSource == "-"
NoError  == [kind |-> "none", source |-> NoSource, info |-> <<>>]

ModFile(mod) == mod \o ".mod"                    \* modfile = mod + '.mod'
ModFiles  == {ModFile(m) : m \in Modules}
Filenames == Sources \cup ModFiles

Range(f) == {f[x] : x \in DOMAIN f}

RECURSIVE SumOver(_, _)
SumOver(S, f) ==
    IF S = {} THEN 0
    ELSE LET x == CHOOSE y \in S : TRUE IN f[x] + SumOver(S \ {x}, f)

SeqsUpTo(S, n) == UNION {[1..k -> S] : k \in 0..n}

Index(src) == CHOOSE i \in 1..Len(TaskOrder) : TaskOrder[i] = src

----------------------------------------------------------------------------
(* get_tree, get_priority, get_ancestors *)

\* mod_defs after the first loop of get_tree: the defining source of each
\* module ("-" when no source defines it).  Only meaningful when no module
\* is defined twice.
ModDefs(mf) ==
    [m \in AllModules |->
        IF \E s \in Sources : m \in Range(mf[s].defined)
        THEN CHOOSE s \in Sources : m \in Range(mf[s].defined)
        ELSE NoSource]

\* All <<i, k>> positions (task i, k-th module statement) in loop order.
DefPositions(mf) ==
    {p \in (1..Len(TaskOrder)) \X (1..MaxDefs) : p[2] <= Len(mf[TaskOrder[p[1]]].defined)}

PosBefore(p, q) == p[1] < q[1] \/ (p[1] = q[1] /\ p[2] < q[2])

ModAt(mf, p) == mf[TaskOrder[p[1]]].defined[p[2]]

\* Mutation of Collisions: only a module repeated within one source collides.
CollisionsWithinSource(mf) ==
    {q \in DefPositions(mf) :
        \E p \in DefPositions(mf) :
            PosBefore(p, q) /\ p[1] = q[1] /\ ModAt(mf, p) = ModAt(mf, q)}

\* Positions at which `module in mod_defs` is true when they are reached.
Collisions(mf) ==
    {q \in DefPositions(mf) :
        \E p \in DefPositions(mf) : PosBefore(p, q) /\ ModAt(mf, p) = ModAt(mf, q)}

FirstCollision(mf) ==
    CHOOSE q \in Collisions(mf) : \A r \in Collisions(mf) : r = q \/ PosBefore(q, r)

\* The source recorded in mod_defs for the module at collision q.
FirstDefiner(mf, q) ==
    LET p == CHOOSE p \in DefPositions(mf) :
                /\ ModAt(mf, p) = ModAt(mf, q)
                /\ \A r \in DefPositions(mf) : ModAt(mf, r) = ModAt(mf, q) => (r = p \/ PosBefore(p, r))
    IN TaskOrder[p[1]]

\* Mutation of DepsAfterIntrinsics: mpi is treated as any other module.
DepsKeepMpi(mf) == [s \in Sources |-> mf[s].used \ {"iso_c_binding"}]

\* src_deps after lines 178-182: iso_c_binding always dropped, mpi dropped
\* when no source defines it.
DepsAfterIntrinsics(mf) ==
    [s \in Sources |->
        (mf[s].used \ {"iso_c_binding"}) \
            (IF \E t \in Sources : "mpi" \in Range(mf[t].defined) THEN {} ELSE {"mpi"})]

\* Lines 183-188: product(task.includes, src_deps[src]) removes a module once
\* for every include directory that holds its .mod file; set.remove of a
\* module already removed raises KeyError.
IncludeKeyError(mf) ==
    \E s \in Sources : \E m \in DepsAfterIntrinsics(mf)[s] : mf[s].inc[m] >= 2

SrcDeps(mf) ==
    [s \in Sources |-> {m \in DepsAfterIntrinsics(mf)[s] : mf[s].inc[m] = 0}]

Undefined(mf) ==
    {m \in UNION {SrcDeps(mf)[s] : s \in Sources} : ModDefs(mf)[m] = NoSource}

ModUses(mf) == [m \in AllModules |-> {s \in Sources : m \in SrcDeps(mf)[s]}]

\* The graph handed to get_priority: for each source the LIST
\* [t for m in mods for t in mod_uses[m]], as a multiplicity per child.
PriorityGraph(mf) ==
    [s \in Sources |->
        [t \in Sources |->
            Cardinality({m \in Range(mf[s].defined) : t \in ModUses(mf)[m]})]]

\* The graph handed to get_ancestors.
AncestorGraph(mf) ==
    [s \in Sources |-> {ModDefs(mf)[m] : m \in SrcDeps(mf)[s]}]

RECURSIVE Reach(_, _, _)
Reach(g, node, fuel) ==
    IF fuel = 0 THEN {}
    ELSE g[node] \cup UNION {Reach(g, n, fuel - 1) : n \in g[node]}

\* A dependency cycle makes getset recurse without end (RecursionError).
Cyclic(g) == \E s \in Sources : s \in Reach(g, s, Cardinality(Sources))

\* Mutation of get_priority_of: 1 plus the number of children.
ChildCount(g, node) == 1 + SumOver(Sources, g[node])

RECURSIVE PrioritySum(_, _, _)
RECURSIVE get_priority_of(_, _)
get_priority_of(g, node) == 1 + PrioritySum(g, node, Sources)
PrioritySum(g, node, S) ==
    IF S = {} THEN 0
    ELSE LET t == CHOOSE y \in S : TRUE
         IN (IF g[node][t] > 0 THEN g[node][t] * get_priority_of(g, t) ELSE 0)
            + PrioritySum(g, node, S \ {t})

get_priority(g) == [s \in Sources |-> get_priority_of(g, s)]

\* Mutation of get_ancestors_of: the children only, not their ancestors.
ChildrenOnly(g, node) == g[node]

RECURSIVE get_ancestors_of(_, _)
get_ancestors_of(g, node) ==
    g[node] \cup UNION {get_ancestors_of(g, n) : n \in g[node]}

get_ancestors(g) == [s \in Sources |-> get_ancestors_of(g, s)]

EmptyTree ==
    [src_mods  |-> [s \in Sources |-> <<>>],
     mod_uses  |-> [m \in AllModules |-> {}],
     hashes    |-> [s \in Sources |-> "none"],
     line_nums |-> [s \in Sources |-> 0],
     priority  |-> [s \in Sources |-> 0],
     ancestors |-> [s \in Sources |-> {}]]

\* The exception get_tree raises on manifest mf, or NoError.
get_tree_error(mf) ==
    IF Collisions(mf) # {}
    THEN LET q == FirstCollision(mf)
         IN [kind |-> "ModuleMultipleDefined", source |-> NoSource,
             info |-> <<ModAt(mf, q), FirstDefiner(mf, q), TaskOrder[q[1]]>>]
    ELSE IF IncludeKeyError(mf)
    THEN [kind |-> "KeyError", source |-> NoSource, info |-> <<>>]
    ELSE IF Undefined(mf) # {}
    THEN [kind |-> "ModuleNotDefined", source |-> NoSource, info |-> <<>>]
    ELSE IF Cyclic(AncestorGraph(mf))
    THEN [kind |-> "RecursionError", source |-> NoSource, info |-> <<>>]
    ELSE NoError

\* The TaskTree get_tree returns on manifest mf (when it raises nothing).
get_tree(mf) ==
    [src_mods  |-> [s \in Sources |-> mf[s].defined],
     mod_uses  |-> ModUses(mf),
     hashes    |-> [s \in Sources |-> mf[s].hash],
     line_nums |-> [s \in Sources |-> mf[s].nlines],
     priority  |-> get_priority(PriorityGraph(mf)),
     ancestors |-> get_ancestors(AncestorGraph(mf))]

----------------------------------------------------------------------------
(* scheduler *)

\* Mutation of Ready: every waiting source is ready.
ReadyAll(tr, wait, sched) == wait

\* Mutation of Ready: only waiting sources block.
ReadyIgnoringScheduled(tr, wait, sched) ==
    {src \in wait : wait \cap tr.ancestors[src] = {}}

\* Lines 256-258: the sources of waiting that the dispatch pass submits.
\* blocking is evaluated once, before the loop.
Ready(tr, wait, sched) ==
    LET blk == wait \cup sched
    IN {src \in wait : blk \cap tr.ancestors[src] = {}}

\* Mutation of DispatchHashes: the entry of a dispatched source is kept.
KeepHashes(hs, ready) == hs

\* Line 259 for every ready source: hashes.pop(src, None).
DispatchHashes(hs, ready) ==
    [f \in Filenames |-> IF f \in ready THEN "none" ELSE hs[f]]

\* Mutation of DispatchPass: a dispatched source is not removed from waiting.
DispatchPassKeepWaiting(tr, st) ==
    LET ready == Ready(tr, st.waiting, st.scheduled)
    IN [st EXCEPT
          !.blocking   = st.waiting \cup st.scheduled,
          !.hashes     = DispatchHashes(st.hashes, ready),
          !.task_queue = st.task_queue \cup {<<-tr.priority[src], src>> : src \in ready},
          !.scheduled  = st.scheduled \cup ready,
          !.dispatched = ready]

\* Lines 259-266 for every ready source: the state after the dispatch pass.
DispatchPass(tr, st) ==
    LET ready == Ready(tr, st.waiting, st.scheduled)
    IN [st EXCEPT
          !.blocking   = st.waiting \cup st.scheduled,
          !.hashes     = DispatchHashes(st.hashes, ready),
          !.task_queue = st.task_queue \cup {<<-tr.priority[src], src>> : src \in ready},
          !.scheduled  = st.scheduled \cup ready,
          !.waiting    = st.waiting \ ready,
          !.dispatched = ready]

\* Mutation of ChangedMods: every module of a recompiled source counts as changed.
AllModsOf(tr, hs, mods, src) == Range(tr.src_mods[src])

\* Line 289: the modules of src whose .mod file hash differs from the cached one.
ChangedMods(tr, hs, mods, src) ==
    {mod \in Range(tr.src_mods[src]) : mods[mod] # hs[ModFile(mod)]}

\* Mutation of Invalidated: an interface change invalidates nothing.
InvalidatedNone(tr, hs, mods, src) == {}

\* Line 291: the sources that use a module of src whose interface changed.
Invalidated(tr, hs, mods, src) ==
    UNION {tr.mod_uses[mod] : mod \in ChangedMods(tr, hs, mods, src)}

\* Line 292 for the result of src: some invalidated source is in scheduled.
AssertionFails(tr, st, mods, src) ==
    Invalidated(tr, st.hashes, mods, src) \cap (st.scheduled \ {src}) # {}

\* Mutation of ResultHashes: the hash of the compiled source is not committed.
ResultHashesNoCommit(tr, hs, mods, src) ==
    LET chg == ChangedMods(tr, hs, mods, src)
        inv == Invalidated(tr, hs, mods, src)
    IN [f \in Filenames |->
          IF f \in inv THEN "none"
          ELSE IF \E mod \in chg : f = ModFile(mod)
               THEN mods[CHOOSE mod \in chg : f = ModFile(mod)]
          ELSE hs[f]]

\* Mutation of ResultHashes: the entries of invalidated sources are kept.
ResultHashesNoPop(tr, hs, mods, src) ==
    LET chg == ChangedMods(tr, hs, mods, src)
    IN [f \in Filenames |->
          IF f = src THEN tr.hashes[src]
          ELSE IF \E mod \in chg : f = ModFile(mod)
               THEN mods[CHOOSE mod \in chg : f = ModFile(mod)]
          ELSE hs[f]]

\* Lines 282, 290 and 293: the hashes dict after the successful result of src
\* is processed.
ResultHashes(tr, hs, mods, src) ==
    LET chg == ChangedMods(tr, hs, mods, src)
        inv == Invalidated(tr, hs, mods, src)
    IN [f \in Filenames |->
          IF f \in inv THEN "none"
          ELSE IF f = src THEN tr.hashes[src]
          ELSE IF \E mod \in chg : f = ModFile(mod)
               THEN mods[CHOOSE mod \in chg : f = ModFile(mod)]
          ELSE hs[f]]

\* Lines 281-296: the state after the successful result of src is processed.
ProcessResult(tr, st, mods, src) ==
    LET chg == ChangedMods(tr, st.hashes, mods, src)
        inv == Invalidated(tr, st.hashes, mods, src)
    IN [st EXCEPT
          !.clocks      = Append(st.clocks, src),
          !.propagated  = st.propagated \cup chg,
          !.hashes      = ResultHashes(tr, st.hashes, mods, src),
          !.n_lines     = st.n_lines + tr.line_nums[src],
          !.scheduled   = st.scheduled \ {src},
          !.n_all_lines = st.n_all_lines + SumOver(inv \ st.waiting, tr.line_nums),
          !.waiting     = st.waiting \cup inv]

\* The scheduler's own state, as one record.
SchedState ==
    [hashes |-> hashes, waiting |-> waiting, scheduled |-> scheduled,
     blocking |-> blocking, n_lines |-> n_lines, n_all_lines |-> n_all_lines,
     dispatched |-> dispatched, clocks |-> clocks, task_queue |-> task_queue,
     propagated |-> propagated]

SetSchedState(st) ==
    /\ hashes' = st.hashes
    /\ waiting' = st.waiting
    /\ scheduled' = st.scheduled
    /\ blocking' = st.blocking
    /\ n_lines' = st.n_lines
    /\ n_all_lines' = st.n_all_lines
    /\ dispatched' = st.dispatched
    /\ clocks' = st.clocks
    /\ task_queue' = st.task_queue
    /\ propagated' = st.propagated

\* The scheduler coroutine ends, by returning or by raising err, and
\* run_until_complete stops the event loop.
Finish(err) ==
    /\ phase' = "stopping"
    /\ error' = err

\* Lines 256-277: dispatch pass, progress line, exit test; st is the state
\* at the top of the loop body.
Iterate(st) ==
    \E after \in {DispatchPass(tree, st)} :
       /\ SetSchedState(after)
       /\ IF after.n_all_lines = 0
          THEN Finish([kind |-> "ZeroDivisionError", source |-> NoSource, info |-> <<>>])
          ELSE IF after.blocking = {}
          THEN Finish(NoError)
          ELSE /\ phase' = "running"
               /\ UNCHANGED error

\* Lines 250-277: the scheduler up to its first await.
SchedulerStart ==
    /\ phase = "start"
    /\ Iterate([SchedState EXCEPT
                   !.n_all_lines = SumOver(changed_files, tree.line_nums),
                   !.n_lines     = 0,
                   !.waiting     = changed_files,
                   !.scheduled   = {}])
    /\ UNCHANGED <<manifest, dry, njobs, cache, cache_doc, cache_writes, modfiles, tree,
                   changed_files, result_queue, workers, spawning, awaited, n_running,
                   spawned, exits, runs>>

\* Lines 278-296 and the next pass of lines 256-277: one result is taken
\* from the result queue and handled up to the next await.
SchedulerResult ==
    /\ phase = "running"
    /\ result_queue # <<>>
    /\ LET res == Head(result_queue)
       IN /\ result_queue' = Tail(result_queue)
          /\ IF res.retcode # 0
             THEN /\ Finish([kind |-> "CompilationError", source |-> res.src,
                              info |-> <<res.retcode>>])
                  /\ UNCHANGED <<hashes, waiting, scheduled, blocking, n_lines,
                                 n_all_lines, dispatched, clocks, task_queue, propagated>>
             ELSE IF AssertionFails(tree, SchedState, modfiles, res.src)
             THEN LET st == [SchedState EXCEPT
                               !.clocks    = Append(clocks, res.src),
                               !.hashes    = [hashes EXCEPT ![res.src] = tree.hashes[res.src]],
                               !.n_lines   = n_lines + tree.line_nums[res.src],
                               !.scheduled = scheduled \ {res.src}]
                  IN /\ SetSchedState(st)
                     /\ Finish([kind |-> "AssertionError", source |-> res.src,
                                 info |-> <<>>])
             ELSE \E st \in {ProcessResult(tree, SchedState, modfiles, res.src)} :
                     Iterate(st)
    /\ UNCHANGED <<manifest, dry, njobs, cache, cache_doc, cache_writes, modfiles, tree,
                   changed_files, workers, spawning, awaited, n_running, spawned,
                   exits, runs>>

----------------------------------------------------------------------------
(* worker *)

\* Mutation of QueueMin: the entry with the least source name, whatever its key.
QueueLeastName(q) ==
    CHOOSE t \in q : \A u \in q : Index(t[2]) <= Index(u[2])

\* PriorityQueue.get: the least entry; entries are compared as tuples, so
\* equal keys are ordered by the source name (its position stands for it).
QueueMin(q) ==
    CHOOSE t \in q : \A u \in q :
        u = t \/ t[1] < u[1] \/ (t[1] = u[1] /\ Index(t[2]) < Index(u[2]))

\* Mutation of Idle: a worker inside create_subprocess_exec counts as idle.
IdleWhileSpawning == njobs - Cardinality(awaited)

\* The njobs workers run the same code and nothing depends on which of them
\* holds a task, so the pool is kept as the tasks held at each await; the
\* workers holding none are blocked in task_queue.get().
Idle == njobs - Cardinality(spawning \cup awaited)

\* Lines 303-304: a worker takes the next task and calls
\* create_subprocess_exec, which starts the subprocess.  A worker woken by the
\* last dispatch pass still does so in the iteration in which the loop stops.
WorkerGet ==
    /\ phase \in {"running", "stopping"}
    /\ workers = "live"
    /\ Idle > 0
    /\ task_queue # {}
    /\ LET t == QueueMin(task_queue)
       IN /\ task_queue' = task_queue \ {t}
          /\ spawning' = spawning \cup {t[2]}
          /\ spawned' = spawned \cup {t[2]}
    /\ UNCHANGED <<manifest, dry, njobs, cache, cache_doc, cache_writes, modfiles, phase, error, tree,
                   hashes, changed_files, waiting, scheduled, blocking, n_lines,
                   n_all_lines, dispatched, clocks, result_queue, workers, awaited,
                   n_running, propagated, exits, runs>>

\* Lines 304-307: create_subprocess_exec returns to the worker of task src,
\* which counts the subprocess as running and waits for it.
WorkerSpawn(src) ==
    /\ phase = "running"
    /\ src \in spawning
    /\ spawning' = spawning \ {src}
    /\ awaited' = awaited \cup {src}
    /\ n_running' = n_running + 1
    /\ UNCHANGED <<manifest, dry, njobs, cache, cache_doc, cache_writes, modfiles, phase, error, tree,
                   hashes, changed_files, waiting, scheduled, blocking, n_lines,
                   n_all_lines, dispatched, clocks, task_queue, result_queue, workers,
                   spawned, propagated, exits, runs>>

\* Lines 307-309: the subprocess of task src exits with retcode and its worker
\* posts the result.  A compiler that exits 0 has written the .mod file of
\* every module of the source, with contents of its choosing.
WorkerExit(src, retcode) ==
    /\ phase = "running"
    /\ src \in awaited
    /\ result_queue' = Append(result_queue, [src |-> src, retcode |-> retcode])
    /\ IF retcode = 0
       THEN \E out \in [Range(tree.src_mods[src]) -> {"h1", "h2"}] :
               modfiles' = [m \in Modules |->
                              IF m \in DOMAIN out THEN out[m] ELSE modfiles[m]]
       ELSE UNCHANGED modfiles
    /\ n_running' = n_running - 1
    /\ awaited' = awaited \ {src}
    /\ UNCHANGED <<manifest, dry, njobs, cache, cache_doc, cache_writes, phase, error, tree,
                   hashes, changed_files, waiting, scheduled, blocking, n_lines,
                   n_all_lines, dispatched, clocks, task_queue, spawning, workers,
                   spawned, propagated, exits, runs>>

\* The subprocess of task src exits, with success or with a failure.
WorkerWait(src) == \E retcode \in {0, 1} : WorkerExit(src, retcode)

----------------------------------------------------------------------------
(* build *)

\* What open(cachefile) and json.load may find: no file, text that is not
\* JSON, a JSON object without the key "hashes", a JSON value that is not an
\* object (a list, a string, a number, null), an object whose "hashes" is not
\* an object, or the document {"hashes": {...}} that build writes.
CacheDocs == {"absent", "unparseable", "no_hashes", "not_object", "hashes_not_map", "hashes"}

\* Lines 319-324: the exception that leaves build while the cache is loaded
\* and first consulted, or NoError.  The except clause of line 322 catches
\* ValueError (json.JSONDecodeError is one) and FileNotFoundError only.
LoadError(doc) ==
    IF doc = "no_hashes"
    THEN [kind |-> "KeyError", source |-> NoSource, info |-> <<"hashes">>]
    ELSE IF doc = "not_object"
    THEN [kind |-> "TypeError", source |-> NoSource, info |-> <<>>]
    ELSE IF doc = "hashes_not_map"
    THEN [kind |-> "AttributeError", source |-> NoSource, info |-> <<>>]
    ELSE NoError

\* Lines 319-323: the prior hash map build works with.
LoadHashes(doc, c) == IF doc = "hashes" THEN c ELSE [f \in Filenames |-> "none"]

\* Line 324.
ChangedFiles(tr, hs) == {src \in Sources : tr.hashes[src] # hs[src]}

\* Mutation of ReturnsEarly: a dry run returns only when nothing changed.
ReturnsWhenEmpty(chg, d) == chg = {}

\* Line 326.
ReturnsEarly(chg, d) == chg = {} \/ d

\* Lines 317-334: scan, load the cache, find the changed files, create the
\* queues and the workers.
Build ==
    /\ phase = "init"
    /\ LET err == get_tree_error(manifest)
       IN IF err # NoError
          THEN /\ phase' = "raised"
               /\ error' = err
               /\ UNCHANGED <<tree, hashes, changed_files, workers>>
          ELSE IF LoadError(cache_doc) # NoError
          THEN /\ phase' = "raised"
               /\ error' = LoadError(cache_doc)
               /\ tree' = get_tree(manifest)
               /\ UNCHANGED <<hashes, changed_files, workers>>
          ELSE LET tr == get_tree(manifest)
                   hs == LoadHashes(cache_doc, cache)
                   chg == ChangedFiles(tr, hs)
               IN /\ tree' = tr
                  /\ hashes' = hs
                  /\ changed_files' = chg
                  /\ error' = NoError
                  /\ IF ReturnsEarly(chg, dry)
                     THEN /\ phase' = "returned"
                          /\ UNCHANGED workers
                     ELSE /\ phase' = "start"
                          /\ workers' = "live"
    /\ UNCHANGED <<manifest, dry, njobs, cache, cache_doc, cache_writes, modfiles, waiting, scheduled,
                   blocking, n_lines, n_all_lines, dispatched, clocks, task_queue,
                   result_queue, spawning, awaited, n_running, spawned, propagated,
                   exits, runs>>

\* Lines 339-351: the loop has stopped; whatever way the scheduler ended, the
\* workers are cancelled and the live hashes are written to the cache file.
BuildExit ==
    /\ phase = "stopping"
    /\ phase' = IF error = NoError THEN "returned" ELSE "raised"
    /\ workers' = "cancelled"
    /\ cache' = hashes
    /\ cache_doc' = "hashes"
    /\ cache_writes' = cache_writes + 1
    /\ UNCHANGED <<manifest, dry, njobs, modfiles, error, tree, hashes, changed_files,
                   waiting, scheduled, blocking, n_lines, n_all_lines, dispatched, clocks,
                   task_queue, result_queue, spawning, awaited, n_running, spawned,
                   propagated, exits, runs>>

\* The process has exited; build is invoked again, in a new process, on the
\* same manifest with the cache file and the .mod files as they were left.
NextRun ==
    /\ phase \in {"returned", "raised"}
    /\ runs < MaxRuns
    /\ runs' = runs + 1
    /\ exits' = Append(exits, [kind |-> error.kind, wrote |-> cache_writes > 0,
                               compiled |-> Len(clocks)])
    /\ cache_writes' = 0
    /\ propagated' = {}
    /\ phase' = "init"
    /\ error' = NoError
    /\ tree' = EmptyTree
    /\ hashes' = [f \in Filenames |-> "none"]
    /\ changed_files' = {}
    /\ waiting' = {} /\ scheduled' = {} /\ blocking' = {} /\ dispatched' = {}
    /\ n_lines' = 0 /\ n_all_lines' = 0
    /\ clocks' = <<>> /\ spawned' = {}
    /\ task_queue' = {} /\ result_queue' = <<>>
    /\ workers' = "none" /\ spawning' = {} /\ awaited' = {}
    /\ n_running' = 0
    /\ UNCHANGED <<manifest, dry, njobs, cache, cache_doc, modfiles>>

----------------------------------------------------------------------------
(* Initial states *)

NoIncludes == [m \in AllModules |-> 0]

\* Everything parse_modules and get_hash can report for one source.
FileInfos ==
    [defined : SeqsUpTo(Modules, MaxDefs), used : SUBSET Modules,
     nlines : {0, LineLen}, hash : {"cur"}, inc : {NoIncludes}]

\* parse_modules, line 61: a source does not use the modules it defines.
Parsed(fi) == fi.used \cap Range(fi.defined) = {}

\* Manifests on which get_tree returns a tree.  Every acyclic manifest is a
\* renaming (of sources and of modules) of one whose modules are defined
\* earlier in the manifest than they are used, whose module statements are in
\* a fixed order and where module "n" is not defined before module "m"; those
\* are taken.
ModIndex(m) == IF m = "m" THEN 1 ELSE 2

InOrder(fi) ==
    \A i, j \in 1..Len(fi.defined) :
        i < j => ModIndex(fi.defined[i]) < ModIndex(fi.defined[j])

Canonical(mf) ==
    /\ get_tree_error(mf) = NoError
    /\ \A s \in Sources : \A m \in mf[s].used : Index(ModDefs(mf)[m]) < Index(s)
    /\ ModDefs(mf)["n"] # NoSource =>
          /\ ModDefs(mf)["m"] # NoSource
          /\ Index(ModDefs(mf)["m"]) <= Index(ModDefs(mf)["n"])

Manifests ==
    {mf \in [Sources -> {fi \in FileInfos : Parsed(fi) /\ InOrder(fi)}] : Canonical(mf)}

\* Caches: none yet, or the one a finished build of the manifest left (an
\* entry for every source and every module that is defined), after which any
\* of the sources may have been edited ("old").  .mod contents being opaque,
\* the cached ones are called "h1".  Caches with entries missing are what a
\* failed first run leaves to the second.
InitialCaches(mf) ==
    {[f \in Filenames |-> "none"]} \cup
    {c \in [Filenames -> {"none", "cur", "old", "h1"}] :
        /\ \A s \in Sources : c[s] \in {"cur", "old"}
        /\ \A m \in Modules :
              c[ModFile(m)] = IF ModDefs(mf)[m] = NoSource THEN "none" ELSE "h1"}

InitCommon ==
    /\ cache_writes = 0
    /\ modfiles = [m \in Modules |-> cache[ModFile(m)]]
    /\ phase = "init"
    /\ error = NoError
    /\ tree = EmptyTree
    /\ hashes = [f \in Filenames |-> "none"]
    /\ changed_files = {}
    /\ waiting = {} /\ scheduled = {} /\ blocking = {} /\ dispatched = {}
    /\ n_lines = 0 /\ n_all_lines = 0
    /\ clocks = <<>> /\ spawned = {}
    /\ task_queue = {} /\ result_queue = <<>>
    /\ workers = "none" /\ spawning = {} /\ awaited = {}
    /\ n_running = 0
    /\ propagated = {}
    /\ exits = <<>>
    /\ runs = 1

\* The file of an empty cache is the one a first build finds: none.
DocOf(c) == IF c = [f \in Filenames |-> "none"] THEN "absent" ELSE "hashes"

Init ==
    /\ manifest \in Manifests
    /\ dry \in BOOLEAN
    /\ njobs \in 1..MaxJobs
    /\ cache \in InitialCaches(manifest)
    /\ cache_doc = DocOf(cache)
    /\ InitCommon

Next ==
    \/ Build
    \/ SchedulerStart
    \/ SchedulerResult
    \/ WorkerGet
    \/ \E src \in Sources : WorkerSpawn(src)
    \/ \E src \in Sources : WorkerWait(src)
    \/ BuildExit
    \/ NextRun

Spec == Init /\ [][Next]_vars

----------------------------------------------------------------------------
(* get_tree on every manifest: the scan alone, on manifests that need not be
   canonical, acyclic or free of duplicate definitions. *)

ScanInfos ==
    {fi \in [defined : SeqsUpTo(Modules, MaxDefs), used : SUBSET Modules,
             nlines : {LineLen}, hash : {"cur"}, inc : {NoIncludes}] : Parsed(fi)}

InitTree ==
    /\ manifest \in [Sources -> ScanInfos]
    /\ dry \in BOOLEAN
    /\ njobs = 1
    /\ cache \in InitialCaches(manifest)
    /\ cache_doc = DocOf(cache)
    /\ InitCommon

NextTree == Build

SpecTree == InitTree /\ [][NextTree]_vars

----------------------------------------------------------------------------
(* get_tree on manifests with include directories and uses or definitions of
   the intrinsic modules.  Two sources vary, the third is a source without
   module or use statements; a source defines at most one module.  inc[m] is
   the number of the task's include directories that hold m.mod: only the
   files of modules the source uses are looked for (line 186). *)

PlainFile ==
    [defined |-> <<>>, used |-> {}, nlines |-> LineLen, hash |-> "cur", inc |-> NoIncludes]

IncInfos ==
    {fi \in [defined : {<<>>, <<"m">>, <<"mpi">>, <<"iso_c_binding">>},
             used : SUBSET ({"m"} \cup Intrinsics),
             nlines : {LineLen}, hash : {"cur"},
             inc : [AllModules -> 0..MaxIncs]] :
        /\ Parsed(fi)
        /\ \A m \in AllModules \ fi.used : fi.inc[m] = 0}

InitScan ==
    /\ manifest \in {[s \in Sources |-> IF s = "a" THEN x ELSE IF s = "b" THEN y ELSE PlainFile] :
                        x \in IncInfos, y \in IncInfos}
    /\ dry = TRUE
    /\ njobs = 1
    /\ cache = [f \in Filenames |-> "none"]
    /\ cache_doc = "absent"
    /\ InitCommon

NextScan == Build

SpecScan == InitScan /\ [][NextScan]_vars

----------------------------------------------------------------------------
(* One build that compiles, every subprocess exiting with code 0, under
   fairness: the event loop runs a callback that is ready (the scheduler when
   a result is queued, a worker when a task is queued or its subprocess was
   created), and a subprocess that runs exits. *)

InitLive == Init /\ ~dry

NextLive ==
    \/ Build
    \/ SchedulerStart
    \/ SchedulerResult
    \/ WorkerGet
    \/ \E src \in Sources : WorkerSpawn(src)
    \/ \E src \in Sources : WorkerExit(src, 0)
    \/ BuildExit

SpecLive == InitLive /\ [][NextLive]_vars /\ WF_vars(NextLive)

----------------------------------------------------------------------------
(* build on every kind of cache file: the scan, the cache load and the start
   of the scheduler, on the manifests of Spec. *)

InitCache ==
    /\ manifest \in Manifests
    /\ dry \in BOOLEAN
    /\ njobs = 1
    /\ cache_doc \in CacheDocs
    /\ cache \in IF cache_doc = "hashes"
                 THEN InitialCaches(manifest)
                 ELSE {[f \in Filenames |-> "none"]}
    /\ InitCommon

NextCache == Build \/ SchedulerStart

SpecCache == InitCache /\ [][NextCache]_vars

----------------------------------------------------------------------------
(* Properties *)

TreeBuilt == phase # "init" /\ tree # EmptyTree

\* The scheduler of this process has been started.
SchedulerRan == TreeBuilt /\ phase # "start" /\ ~dry /\ changed_files # {}

\* Position of src in a sequence of sources (0 when it is not in it).
Pos(seq, src) ==
    IF \E i \in 1..Len(seq) : seq[i] = src
    THEN CHOOSE i \in 1..Len(seq) : seq[i] = src
    ELSE 0

\* Sources a worker holds (taken from the task queue, result not yet posted).
Held == spawning \cup awaited

\* Sources whose subprocess is running.
Running == awaited

Queued == {t[2] : t \in task_queue}

Posted == {result_queue[i].src : i \in 1..Len(result_queue)}

\* C1: a source b is put on the task queue only after the result of every
\* ancestor a of b that is compiled in the run has been processed: once b is
\* dispatched no ancestor of b is waiting or scheduled, results of ancestors
\* are processed before b's, and no subprocess of b is created while an
\* ancestor is still to be compiled or being compiled.
C1_AncestorsFirst ==
    TreeBuilt =>
        \A b \in Sources : \A a \in tree.ancestors[b] :
            /\ (b \in scheduled \cup Range(clocks)) => a \notin waiting \cup scheduled
            /\ (a \in Range(clocks) /\ b \in Range(clocks)) => Pos(clocks, a) < Pos(clocks, b)
            /\ b \in spawned =>
                  /\ a \notin Running \cup Held \cup Queued
                  /\ a \in spawned => a \in Range(clocks)

\* C1 witness: with two workers, a source and one of its ancestors have both
\* been compiled in one run.
C1_Witness ==
    /\ TreeBuilt
    /\ njobs = 2
    /\ \E b \in Sources : \E a \in tree.ancestors[b] :
          a \in Range(clocks) /\ b \in Range(clocks)

\* C2: after every dispatch pass, the sources the pass dispatched are exactly
\* the sources that were waiting at its start and have no ancestor in the
\* blocking set taken at its start; the pass moved them from waiting to
\* scheduled and put them on the task queue, and blocking still equals
\* waiting \cup scheduled (a source dispatched in the pass keeps blocking).
C2_DispatchIffUnblocked ==
    SchedulerRan =>
        /\ blocking = waiting \cup scheduled
        /\ dispatched = {s \in waiting \cup dispatched : tree.ancestors[s] \cap blocking = {}}
        /\ dispatched \subseteq scheduled
        /\ dispatched \cap waiting = {}
        /\ phase = "running" => scheduled = Queued \cup Held \cup Posted

\* C2 witness: a pass dispatched one source and left another waiting behind
\* an ancestor that is scheduled.
C2_Witness ==
    /\ SchedulerRan
    /\ phase = "running"
    /\ dispatched # {}
    /\ \E s \in waiting : tree.ancestors[s] \cap scheduled # {}

\* The scheduler step that processes a successful result.
ResultStep ==
    /\ phase = "running"
    /\ result_queue # <<>>
    /\ Head(result_queue).retcode = 0
    /\ clocks' = Append(clocks, Head(result_queue).src)

UsersOf(mods) == UNION {tree.mod_uses[m] : m \in mods}

\* C3: when the successful result of s is processed, a module m of s whose
\* .mod hash equals the cached one keeps its cached hash, and a source d that
\* uses only such modules of s is not added to waiting (nor dispatched), keeps
\* its hash entry, and adds nothing to n_all_lines: n_all_lines grows by the
\* lines of the newly invalidated users of the changed modules alone.
C3_UnchangedInterface ==
    [][ResultStep =>
          LET s    == Head(result_queue).src
              same == {m \in Range(tree.src_mods[s]) : modfiles[m] = hashes[ModFile(m)]}
              diff == Range(tree.src_mods[s]) \ same
          IN /\ \A m \in same : hashes'[ModFile(m)] = hashes[ModFile(m)]
             /\ \A d \in UsersOf(same) \ UsersOf(diff) :
                   /\ d \notin waiting => d \notin waiting' \cup scheduled'
                   /\ d \notin waiting => hashes'[d] = hashes[d]
                   /\ d \in waiting /\ d \in waiting' => hashes'[d] = hashes[d]
             /\ n_all_lines' = n_all_lines + SumOver(UsersOf(diff) \ waiting, tree.line_nums)
             /\ waiting' \cup scheduled' = ((waiting \cup scheduled) \ {s}) \cup UsersOf(diff)
       ]_vars

\* C3 witness: a run ended successfully in which a source with a cached,
\* current hash was left alone although a source defining a module it uses
\* was recompiled (the module's .mod hash came out as cached).
C3_Witness ==
    /\ SchedulerRan
    /\ phase = "returned"
    /\ \E s \in Sources : \E m \in Range(tree.src_mods[s]) : \E d \in tree.mod_uses[m] :
          /\ s \in Range(clocks)
          /\ d \notin Range(clocks)
          /\ m \notin propagated
          /\ tree.line_nums[d] > 0
\* The source that defines module m.
DefinerOf(m) == CHOOSE s \in Sources : m \in Range(tree.src_mods[s])

\* C4: once the scheduler has found the .mod hash of a module m of s changed,
\* every source d that uses m is waiting, scheduled or already recompiled
\* after s, whether or not d was in the changed files; when the scheduler
\* returns, d has been compiled, its result processed after that of s.
C4_ChangedInterfaceRecompiles ==
    SchedulerRan =>
        \A m \in propagated : \A d \in tree.mod_uses[m] :
            LET s == DefinerOf(m)
            IN /\ s \in Range(clocks)
               /\ phase = "running" =>
                     \/ d \in waiting \cup scheduled
                     \/ Pos(clocks, d) > Pos(clocks, s)
               /\ phase = "returned" => Pos(clocks, d) > Pos(clocks, s)

\* C4 witness: the scheduler returned after compiling a source that was not
\* in the changed files, because a module it uses changed.
C4_Witness ==
    /\ SchedulerRan
    /\ phase = "returned"
    /\ \E m \in propagated : \E d \in tree.mod_uses[m] :
          d \notin changed_files /\ d \in Range(clocks)

\* C5: when the scheduler returns, the live hashes and the cache written
\* hold the current hash of every source; and the build that follows a build
\* that returned after writing the cache finds no changed file and returns
\* without creating workers, queuing tasks or spawning subprocesses.
C5_SecondRunIdle ==
    /\ (SchedulerRan /\ phase = "returned") =>
          /\ cache_writes = 1
          /\ \A s \in Sources : hashes[s] = tree.hashes[s] /\ cache[s] = tree.hashes[s]
          /\ ChangedFiles(tree, cache) = {}
    /\ (runs >= 2 /\ phase # "init" /\ exits[runs - 1].kind = "none" /\ exits[runs - 1].wrote) =>
          /\ phase = "returned"
          /\ changed_files = {}
          /\ workers = "none" /\ task_queue = {} /\ spawned = {}

\* C5 witness: the second build returned with no changed file after a first
\* build that compiled every source and wrote the cache.
C5_Witness ==
    /\ runs = 2
    /\ phase = "returned"
    /\ changed_files = {}
    /\ exits[1].kind = "none" /\ exits[1].wrote
    /\ exits[1].compiled = Cardinality(Sources)
    /\ tree.ancestors["c"] # {}

\* C6: the assertion of line 292 never fails: whenever a successful result is
\* at the head of the result queue, no user of a module whose .mod hash is
\* about to be found changed is in scheduled, and no build ends with an
\* AssertionError.
C6_AssertionHolds ==
    /\ error.kind # "AssertionError"
    /\ (phase = "running" /\ result_queue # <<>> /\ Head(result_queue).retcode = 0) =>
          ~AssertionFails(tree, SchedState, modfiles, Head(result_queue).src)

\* C6 witness: with two workers, a changed .mod hash was found for a module
\* that has users, while another source was scheduled.
C6_Witness ==
    /\ SchedulerRan
    /\ njobs = 2
    /\ \E m \in propagated : tree.mod_uses[m] # {}
    /\ Cardinality(scheduled) >= 1
    /\ Len(clocks) = 1

\* C7: when build ends with CompilationError(src, retcode), it has written the
\* cache, and the cache has no entry for src nor for any source still in
\* scheduled, and holds the current hash of every source whose result was
\* processed before.
C7_CacheAfterFailure ==
    (phase = "raised" /\ error.kind = "CompilationError") =>
        /\ cache_writes = 1
        /\ cache = hashes
        /\ error.source \in scheduled
        /\ cache[error.source] = "none"
        /\ \A s \in scheduled : cache[s] = "none"
        /\ \A c \in Range(clocks) : cache[c] = tree.hashes[c]
        /\ workers = "cancelled"

\* C7 witness: a compilation failed after another had succeeded, while a
\* third source was still scheduled.
C7_Witness ==
    /\ phase = "raised"
    /\ error.kind = "CompilationError"
    /\ clocks # <<>>
    /\ Cardinality(scheduled) >= 2

\* C8: whenever the scheduler awaits a result, every source that is waiting
\* or scheduled has a live hash entry different from its current hash, so a
\* build started from the live hashes has it among its changed files.
C8_PendingStayDirty ==
    (SchedulerRan /\ phase = "running") =>
        \A s \in waiting \cup scheduled :
            /\ hashes[s] # tree.hashes[s]
            /\ s \in ChangedFiles(get_tree(manifest), hashes)

\* C8 witness: a source whose cached hash was current is waiting, invalidated
\* by a changed interface, while the scheduler awaits a result.
C8_Witness ==
    /\ SchedulerRan
    /\ phase = "running"
    /\ \E d \in waiting : d \notin changed_files /\ cache[d] = tree.hashes[d]

\* C9 as stated: every priority is at least 1 and a source has a greater
\* priority than each of its ancestors.
C9_AsStated ==
    TreeBuilt =>
        \A s \in Sources :
            /\ tree.priority[s] >= 1
            /\ \A d \in tree.ancestors[s] : tree.priority[s] > tree.priority[d]

\* C9 amended: every priority is at least 1 and each ancestor d of a source
\* s (a source that must be compiled before s) has a greater priority than s.
C9_AncestorsOutrank ==
    TreeBuilt =>
        \A s \in Sources :
            /\ tree.priority[s] >= 1
            /\ \A d \in tree.ancestors[s] : tree.priority[d] > tree.priority[s]

\* C9 witness: get_tree returned a tree with a chain of three sources.
C9_Witness ==
    /\ TreeBuilt
    /\ \E s \in Sources : Cardinality(tree.ancestors[s]) = 2
    /\ \E s \in Sources : Cardinality(tree.ancestors[s]) = 1 /\ tree.priority[s] = 2

\* C10 as stated: the priority of a source is 1 plus the sum of the
\* priorities over the SET of sources that use one of its modules.
C10_ChildrenCountedOnce ==
    TreeBuilt =>
        \A src \in Sources :
            tree.priority[src] =
                1 + SumOver(UsersOf(Range(tree.src_mods[src])), tree.priority)

----------------------------------------------------------------------------
(* get_tree: rejected manifests, include directories, intrinsic modules *)

\* The sources with a module statement for m.
Definers(mf, m) == {s \in Sources : m \in Range(mf[s].defined)}

\* Some module is defined by two different sources.
CrossDefined(mf) == \E m \in AllModules : Cardinality(Definers(mf, m)) >= 2

\* Some source has two module statements for the same module.
SelfRepeated(mf) ==
    \E s \in Sources : Cardinality(Range(mf[s].defined)) < Len(mf[s].defined)

\* Nothing of build beyond get_tree has happened in this process.
NothingStarted ==
    /\ tree = EmptyTree
    /\ hashes = [f \in Filenames |-> "none"]
    /\ changed_files = {}
    /\ workers = "none"
    /\ task_queue = {} /\ result_queue = <<>>
    /\ spawning = {} /\ awaited = {} /\ spawned = {}
    /\ n_running = 0
    /\ cache_writes = 0

\* C11: when a module is defined by two different sources, build ends by
\* raising ModuleMultipleDefined(mod, [first, second]), where first and second
\* both define mod and first is not after second in the manifest (they are the
\* first two definers of mod, and differ, unless some source repeats a module
\* statement of its own); no tree was returned, no worker created, no task
\* queued, no subprocess spawned, the cache neither loaded nor written.
\* Conversely, when get_tree returned, no module has two definitions.
C11_DuplicateRejected ==
    phase # "init" =>
        /\ CrossDefined(manifest) =>
              /\ phase = "raised"
              /\ error.kind = "ModuleMultipleDefined"
              /\ LET mod    == error.info[1]
                     first  == error.info[2]
                     second == error.info[3]
                 IN /\ {first, second} \subseteq Definers(manifest, mod)
                    /\ Index(first) <= Index(second)
                    /\ ~SelfRepeated(manifest) =>
                          /\ first # second
                          /\ \A s \in Definers(manifest, mod) \ {first, second} :
                                Index(second) < Index(s)
              /\ NothingStarted
        /\ TreeBuilt =>
              /\ ~CrossDefined(manifest)
              /\ ~SelfRepeated(manifest)
              /\ \A s \in Sources : \A m \in Range(tree.src_mods[s]) :
                    Definers(manifest, m) = {s}

\* C11 witness: build raised ModuleMultipleDefined for a module that all
\* three sources define, naming the first two, with a cache file present.
C11_Witness ==
    /\ phase = "raised"
    /\ error.kind = "ModuleMultipleDefined"
    /\ error.info = <<"n", "a", "b">>
    /\ Definers(manifest, "n") = Sources
    /\ cache_doc = "hashes"

\* The modules source s uses that get_tree has to find a definer for when
\* every module with a .mod file in an include directory is left out.
Needed(mf, s) ==
    {m \in mf[s].used \ {"iso_c_binding"} :
        /\ mf[s].inc[m] = 0
        /\ ~(m = "mpi" /\ Definers(mf, "mpi") = {})}

\* C12 as stated: a used module whose .mod file is in one or in several
\* include directories of the task is dropped from the source's dependencies:
\* get_tree raises nothing on account of it (a ModuleNotDefined is due to a
\* module that is in no include directory, and nothing else than
\* ModuleMultipleDefined, ModuleNotDefined or a cycle makes get_tree raise),
\* and the source is not in mod_uses of the module nor depends on its definer
\* through it.
C12_IncludedDropped ==
    phase # "init" =>
        /\ error.kind \in {"none", "ModuleMultipleDefined", "ModuleNotDefined", "RecursionError"}
        /\ error.kind = "ModuleMultipleDefined" => CrossDefined(manifest) \/ SelfRepeated(manifest)
        /\ error.kind = "ModuleNotDefined" =>
              \E s \in Sources : \E m \in Needed(manifest, s) : Definers(manifest, m) = {}
        /\ TreeBuilt =>
              \A s \in Sources : \A m \in manifest[s].used :
                  manifest[s].inc[m] >= 1 =>
                      /\ s \notin tree.mod_uses[m]
                      /\ tree.ancestors[s] =
                            UNION {Definers(manifest, n) \cup
                                   UNION {tree.ancestors[d] : d \in Definers(manifest, n)} :
                                       n \in Needed(manifest, s)}

\* The ancestors of s when its dependencies are the modules of Needed.
NeededAncestors(s) ==
    UNION {Definers(manifest, n) \cup UNION {tree.ancestors[d] : d \in Definers(manifest, n)} :
              n \in Needed(manifest, s)}

\* ModuleNotDefined, when raised, is due to a module other than
\* iso_c_binding and an undefined mpi.
MissingIsNeeded ==
    error.kind = "ModuleNotDefined" =>
        \E s \in Sources : \E m \in Needed(manifest, s) : Definers(manifest, m) = {}

\* iso_c_binding never gives an edge.
IsoDropped ==
    TreeBuilt =>
        /\ tree.mod_uses["iso_c_binding"] = {}
        /\ \A s \in Sources : tree.ancestors[s] = NeededAncestors(s)

\* C13 as stated: a use of mpi is dropped exactly when no source defines mpi:
\* with no definer there is no ModuleNotDefined for it and no edge; with a
\* definer, every source that uses mpi is in mod_uses["mpi"] and has the
\* definer among its ancestors.  iso_c_binding gives no edge and no error.
C13_AsStated ==
    phase # "init" =>
        /\ MissingIsNeeded
        /\ IsoDropped
        /\ TreeBuilt =>
              IF Definers(manifest, "mpi") = {}
              THEN tree.mod_uses["mpi"] = {}
              ELSE \A s \in Sources : "mpi" \in manifest[s].used =>
                      /\ s \in tree.mod_uses["mpi"]
                      /\ Definers(manifest, "mpi") \subseteq tree.ancestors[s]

\* C13 amended: as stated, for the sources none of whose include directories
\* holds mpi.mod; a source with mpi.mod in an include directory has its use
\* of mpi dropped whether or not a source defines mpi.
C13_MpiDroppedUnlessDefined ==
    phase # "init" =>
        /\ MissingIsNeeded
        /\ IsoDropped
        /\ TreeBuilt =>
              IF Definers(manifest, "mpi") = {}
              THEN tree.mod_uses["mpi"] = {}
              ELSE \A s \in Sources : "mpi" \in manifest[s].used =>
                      /\ s \in tree.mod_uses["mpi"] <=> manifest[s].inc["mpi"] = 0
                      /\ manifest[s].inc["mpi"] = 0 =>
                            Definers(manifest, "mpi") \subseteq tree.ancestors[s]

\* C13 witness: get_tree returned a tree in which a source that uses mpi and
\* iso_c_binding depends on the source that defines mpi, and on nothing else.
C13_Witness ==
    /\ TreeBuilt
    /\ manifest["b"].used = Intrinsics
    /\ tree.mod_uses["mpi"] = {"b"}
    /\ tree.ancestors["b"] = {"a"}
    /\ tree.priority["a"] > tree.priority["b"]

----------------------------------------------------------------------------
(* build: early return and cache load *)

\* build is about to be called with dry set or with no changed file.
QuietCall ==
    /\ phase = "init"
    /\ get_tree_error(manifest) = NoError
    /\ LoadError(cache_doc) = NoError
    /\ dry \/ ChangedFiles(get_tree(manifest), LoadHashes(cache_doc, cache)) = {}

\* C14: a build called with dry set, or that finds no changed file, returns
\* with no worker created, no task queued, no subprocess spawned and the cache
\* file not written: the file and the hashes in it are as before the call,
\* and stay so until the process has exited.
C14_QuietReturn ==
    [][/\ QuietCall =>
             /\ phase' = "returned"
             /\ error' = NoError
             /\ workers' = "none"
             /\ task_queue' = {} /\ result_queue' = <<>>
             /\ spawning' = {} /\ awaited' = {} /\ spawned' = {}
             /\ n_running' = 0
             /\ cache_writes' = 0
             /\ cache' = cache /\ cache_doc' = cache_doc
             /\ modfiles' = modfiles
       /\ (phase = "returned" /\ (dry \/ changed_files = {})) =>
             /\ cache_writes = 0
             /\ cache' = cache /\ cache_doc' = cache_doc
             /\ modfiles' = modfiles
      ]_vars

\* C14 witness: a dry build returned with one changed file out of three,
\* the cache file of an earlier build being present.
C14_Witness ==
    /\ phase = "returned"
    /\ dry
    /\ Cardinality(changed_files) = 1
    /\ cache_doc = "hashes"
    /\ cache_writes = 0
    /\ workers = "none"

\* C15 as stated: when the cache file is missing or holds anything but a
\* document {"hashes": {...}}, build raises nothing while loading it and
\* works with an empty prior hash map: every source is a changed file.
C15_MalformedIsEmpty ==
    (phase # "init" /\ cache_doc # "hashes") =>
        /\ error.kind \notin {"KeyError", "TypeError", "AttributeError"}
        /\ TreeBuilt
        /\ changed_files = Sources
        /\ phase = "start" => hashes = [f \in Filenames |-> "none"]

----------------------------------------------------------------------------
(* worker and scheduler: bounds, order, progress *)

\* C16: with njobs workers, the subprocesses started and not yet waited to
\* completion (those of the tasks a worker holds) are at most njobs, and
\* n_running, which counts those a worker is waiting for, stays in 0..njobs,
\* however many tasks the priority queue holds.
C16_InFlightBounded ==
    /\ Cardinality(spawning \cup awaited) <= njobs
    /\ spawning \cap awaited = {}
    /\ n_running = Cardinality(awaited)
    /\ n_running \in 0..njobs

\* C16 witness: two workers each wait for a subprocess while a third ready
\* task is in the priority queue.
C16_Witness ==
    /\ njobs = 2
    /\ n_running = 2
    /\ Cardinality(awaited) = 2
    /\ task_queue # {}

\* The scheduler returned with nothing left to compile.
SchedulerDone ==
    /\ phase = "returned"
    /\ error = NoError
    /\ waiting = {} /\ scheduled = {}

\* C17 as stated: on every tree and non-empty changed set, with every
\* subprocess exiting with code 0, the scheduler never awaits a result while
\* scheduled is empty, and once started it eventually returns with waiting
\* and scheduled empty.
C17_Terminates ==
    /\ [](phase = "running" => scheduled # {})
    /\ (phase = "start") ~> SchedulerDone

\* The same for the changed sets that hold at least one line of source;
\* this one holds.
C17_TerminatesWithLines ==
    /\ [](phase = "running" => scheduled # {})
    /\ (phase = "start" /\ SumOver(changed_files, tree.line_nums) > 0) ~> SchedulerDone

\* A step in which a worker takes a task from the priority queue.
TakeStep == spawning \subseteq spawning' /\ spawning' # spawning

\* C18: every task is queued under the key -priority of its source; the task
\* a worker takes has the greatest priority of all tasks in the queue at that
\* moment (which of several with that priority is left open); and of two
\* sources dispatched by the same pass, the one with the lower priority has
\* not been started before the one with the higher priority.
C18_HighestFirst ==
    [][/\ \A t \in task_queue : t[1] = -tree.priority[t[2]]
       /\ TakeStep =>
             LET src == CHOOSE x \in spawning' \ spawning : TRUE
             IN /\ spawning' = spawning \cup {src}
                /\ <<-tree.priority[src], src>> \in task_queue
                /\ task_queue' = task_queue \ {<<-tree.priority[src], src>>}
                /\ \A u \in task_queue : tree.priority[src] >= tree.priority[u[2]]
       /\ \A x, y \in dispatched' :
             (tree'.priority[x] > tree'.priority[y] /\ y \in spawned') => x \in spawned'
      ]_vars

\* C18 witness: the one worker holds source b, taken while source a, which
\* the same pass dispatched with a lower priority, is still in the queue.
C18_Witness ==
    /\ njobs = 1
    /\ {"a", "b"} \subseteq dispatched
    /\ tree.priority["b"] > tree.priority["a"]
    /\ "b" \in spawning \cup awaited
    /\ "a" \in Queued

\* C19 as stated: the progress computation of every scheduler iteration
\* succeeds: no build ends with ZeroDivisionError, and whenever the scheduler
\* has computed a progress line, n_all_lines > 0 and 0 <= n_lines <=
\* n_all_lines, sources of 0 lines included.
C19_ProgressDefined ==
    /\ error.kind # "ZeroDivisionError"
    /\ SchedulerRan =>
          /\ n_all_lines > 0
          /\ 0 <= n_lines
          /\ n_lines <= n_all_lines

\* The same for the runs whose changed files hold at least one line; this
\* one holds, n_lines being then the lines of the sources processed and
\* n_all_lines those of the sources processed, scheduled or waiting.
C19_ProgressDefinedWithLines ==
    (SchedulerRan /\ SumOver(changed_files, tree.line_nums) > 0) =>
        /\ error.kind # "ZeroDivisionError"
        /\ n_all_lines > 0
        /\ n_lines = SumOver(Range(clocks), tree.line_nums)
        /\ n_all_lines = SumOver(Range(clocks) \cup scheduled \cup waiting, tree.line_nums)

\* C20: in a run of the scheduler, waiting and scheduled are disjoint, and a
\* source whose result has been processed is neither waiting nor scheduled
\* again, is in no queue and held by no worker, was processed once, and keeps
\* its committed entry hashes[src] = tree.hashes[src].
C20_DispatchedOnce ==
    SchedulerRan =>
        /\ waiting \cap scheduled = {}
        /\ Cardinality(Range(clocks)) = Len(clocks)
        /\ \A src \in Range(clocks) :
              /\ src \notin waiting \cup scheduled
              /\ src \notin Queued \cup Held \cup Posted
              /\ src \in spawned
              /\ hashes[src] = tree.hashes[src]

\* C20 witness: two results have been processed, the first of a source whose
\* changed module made the scheduler add a user of it, now scheduled, that
\* was not among the changed files.
C20_Witness ==
    /\ SchedulerRan
    /\ phase = "running"
    /\ Len(clocks) = 2
    /\ \E m \in propagated \cap Range(tree.src_mods[clocks[1]]) :
          (tree.mod_uses[m] \cap scheduled) \ changed_files # {}
====
